---------------------------- MODULE Spec2Model ----------------------------
(* A model of tmtoolkit/topicmod/model_stats.py: the statistics over a    *)
(* document-term matrix, the ranking of words by a score, the relevance   *)
(* ranking of one topic, and the topic labels made from the top words.    *)
(*                                                                         *)
(* Every function of the module is pure.  A specification draws the data  *)
(* a function is given in Init, one action per function applies it (the   *)
(* remaining arguments drawn by the action), and the state keeps what was *)
(* called, with what, and what came back.                                 *)
(*                                                                         *)
(* Arrays are records [kind, shape, data]: kind is "ndarray", "matrix"    *)
(* (np.matrix) or "sparse" (scipy.sparse), shape the numpy shape, data    *)
(* the elements (a sequence for 1-D, a sequence of rows for 2-D).         *)
(* Sequences are 1-based: position i here is index i-1 in the source.     *)
EXTENDS Integers, Sequences, FiniteSets, TLC

VARIABLES
    dtm,            \* SpecDtm: the document-term matrix given
    words,          \* SpecScore: the `words` array given to _words_by_score
    score,          \* SpecScore: the `score` array given to _words_by_score
    vocab,          \* SpecRel, SpecLabels: the vocabulary given
    rel_mat,        \* SpecRel: the relevance matrix given
    fn,             \* the function called ("" before the call)
    args,           \* the remaining arguments of the call
    indices,        \* <<ix>>: np.argsort returned ix inside the call; <<>>: not reached
    ret,            \* what the call did: [outcome, value]
    \* SpecLabels: generate_topic_labels_from_top_words, step by step
    pc,                 \* where the call is: "n_words", "rank", "format", "done"
    topic_word_distrib, \* the shape of the topic-word distribution given
    most_rel_words,     \* the local list, one tuple of words per topic ranked
    loop_n,             \* the loop variable `n` after the search (<<>> unbound)
    n_most_rel,         \* the local list after the search
    topic_labels        \* the local list of formatted labels

labelVars ==
    <<pc, topic_word_distrib, most_rel_words, loop_n, n_most_rel, topic_labels>>

vars == <<dtm, words, score, vocab, rel_mat, fn, args, indices, ret, labelVars>>

None == "None"

-----------------------------------------------------------------------------
(* Bounds of the model.                                                    *)

MaxDocs == 2        \* rows of a generated dtm
MaxTerms == 3       \* columns of a generated dtm
MaxTokens == 3      \* total of the entries of a generated dtm
MaxMinVal == 2      \* min_val is drawn from 0..MaxMinVal
MaxLen == 3         \* length of the words and score given to _words_by_score
MaxScore == 3       \* a score is drawn from 1..MaxScore
MaxTopics == 2      \* rows of a relevance matrix (topics)
MaxVocab == 3       \* columns of a relevance matrix (words of the vocabulary)
MaxRelTotal == 3    \* total of the entries of a generated relevance matrix
MaxRel == 3         \* a relevance read by the labelling is drawn from 1..MaxRel

-----------------------------------------------------------------------------
(* Python outcomes.                                                        *)

Return(v) == [outcome |-> "return", value |-> v]
Raise(e) == [outcome |-> e, value |-> None]
NotCalled == [outcome |-> "", value |-> None]

\* the variables of the labelling, in the specifications that do not label
NoLabels ==
    /\ pc = "" /\ topic_word_distrib = None /\ most_rel_words = <<>>
    /\ loop_n = <<>> /\ n_most_rel = <<>> /\ topic_labels = <<>>

-----------------------------------------------------------------------------
(* numpy.                                                                   *)

RECURSIVE Sum(_)
Sum(s) == IF s = <<>> THEN 0 ELSE Head(s) + Sum(Tail(s))

RECURSIVE Concat(_)
Concat(ss) == IF ss = <<>> THEN <<>> ELSE Head(ss) \o Concat(Tail(ss))

Ndim(a) == Len(a.shape)

\* a.A : the same elements as a plain ndarray
ToArray(a) == [kind |-> "ndarray", shape |-> a.shape, data |-> a.data]

\* a.flatten() : the elements of a 2-D array in row-major order, 1-D
Flatten(a) ==
    IF Ndim(a) = 1 THEN a
    ELSE [kind |-> "ndarray", shape |-> <<a.shape[1] * a.shape[2]>>,
          data |-> Concat(a.data)]

\* a faulty np.sum that sums the rows whatever the axis
NpSum_IgnoresAxis(a, axis) ==
    LET D == a.shape[1]
        V == a.shape[2]
        rows == [d \in 1..D |-> Sum(a.data[d])]
    IN  IF a.kind = "ndarray"
        THEN [kind |-> "ndarray", shape |-> <<D>>, data |-> rows]
        ELSE [kind |-> "matrix", shape |-> <<D, 1>>,
              data |-> [d \in 1..D |-> <<rows[d]>>]]

\* np.sum(a, axis) of a 2-D array: an ndarray loses the axis, a matrix or a
\* sparse matrix gives an np.matrix that keeps it (1 x V or D x 1)
NpSum(a, axis) ==
    LET D == a.shape[1]
        V == a.shape[2]
        cols == [w \in 1..V |-> Sum([d \in 1..D |-> a.data[d][w]])]
        rows == [d \in 1..D |-> Sum(a.data[d])]
    IN  IF a.kind = "ndarray"
        THEN IF axis = 0
             THEN [kind |-> "ndarray", shape |-> <<V>>, data |-> cols]
             ELSE [kind |-> "ndarray", shape |-> <<D>>, data |-> rows]
        ELSE IF axis = 0
             THEN [kind |-> "matrix", shape |-> <<1, V>>, data |-> <<cols>>]
             ELSE [kind |-> "matrix", shape |-> <<D, 1>>,
                   data |-> [d \in 1..D |-> <<rows[d]>>]]

\* x / y with `from __future__ import division`: the exact quotient
Frac(x, y) == [num |-> x, den |-> y]

-----------------------------------------------------------------------------
(* Common statistics from BoW matrices.                                     *)

get_doc_lengths(m) ==
    LET d1 == IF m.kind = "matrix" THEN ToArray(m) ELSE m
    IN  IF Ndim(d1) # 2 THEN Raise("ValueError")
        ELSE LET res == NpSum(d1, 1)
             IN  IF Ndim(res) # 1 THEN Return(Flatten(ToArray(res)))
                 ELSE Return(res)

get_term_frequencies(m) ==
    LET d1 == IF m.kind = "matrix" THEN ToArray(m) ELSE m
    IN  IF Ndim(d1) # 2 THEN Raise("ValueError")
        ELSE LET res == NpSum(d1, 0)
             IN  IF Ndim(res) # 1 THEN Return(Flatten(ToArray(res)))
                 ELSE Return(res)

\* a faulty get_term_proportions that divides without testing the total
get_term_proportions_NoZeroCheck(m) ==
    LET unnorm == get_term_frequencies(m)
    IN  IF unnorm.outcome # "return" THEN unnorm
        ELSE LET total == Sum(unnorm.value.data)
             IN  Return([unnorm.value EXCEPT
                     !.data = [w \in DOMAIN unnorm.value.data |->
                                  Frac(unnorm.value.data[w], total)]])

get_term_proportions(m) ==
    LET unnorm == get_term_frequencies(m)
    IN  IF unnorm.outcome # "return" THEN unnorm
        ELSE LET total == Sum(unnorm.value.data)
             IN  IF total = 0 THEN Raise("ValueError")
                 ELSE Return([unnorm.value EXCEPT
                         !.data = [w \in DOMAIN unnorm.value.data |->
                                      Frac(unnorm.value.data[w], total)]])

\* itertools.combinations(range(n), 2), in the order it yields the pairs
RECURSIVE CombinationsFrom(_, _, _)
CombinationsFrom(w1, w2, n) ==
    IF w1 >= n - 1 THEN <<>>
    ELSE IF w2 >= n THEN CombinationsFrom(w1 + 1, w1 + 2, n)
    ELSE <<<<w1, w2>>>> \o CombinationsFrom(w1, w2 + 1, n)

\* itertools.combinations_with_replacement(range(n), 2): a faulty choice of
\* pairs that also pairs a word with itself
RECURSIVE CombinationsWithReplacementFrom(_, _, _)
CombinationsWithReplacementFrom(w1, w2, n) ==
    IF w1 >= n THEN <<>>
    ELSE IF w2 >= n THEN CombinationsWithReplacementFrom(w1 + 1, w1 + 1, n)
    ELSE <<<<w1, w2>>>> \o CombinationsWithReplacementFrom(w1, w2 + 1, n)

CombinationsWithReplacement(n) == CombinationsWithReplacementFrom(0, 0, n)

Combinations(n) == CombinationsFrom(0, 1, n)

\* word_in_doc[:, w] : column w (0-based) of dtm >= min_val, one flag per row
WordInDocs(m, min_val, w) ==
    [d \in 1..m.shape[1] |-> m.data[d][w + 1] >= min_val]

\* np.sum(w1_in_docs & w2_in_docs)
CountBoth(c1, c2) ==
    Sum([d \in DOMAIN c1 |-> IF c1[d] /\ c2[d] THEN 1 ELSE 0])

\* the loop over the pairs, from pair number i, codoc_freq being the dict so far
RECURSIVE codoc_loop(_, _, _, _, _, _)
codoc_loop(m, min_val, proportions, pairs, i, codoc_freq) ==
    IF i > Len(pairs) THEN codoc_freq
    ELSE LET w1 == pairs[i][1]
             w2 == pairs[i][2]
             freq0 == CountBoth(WordInDocs(m, min_val, w1),
                                WordInDocs(m, min_val, w2))
             freq == IF proportions THEN Frac(freq0, m.shape[1]) ELSE freq0
         IN  codoc_loop(m, min_val, proportions, pairs, i + 1,
                 [k \in (DOMAIN codoc_freq) \cup {pairs[i]} |->
                     IF k = pairs[i] THEN freq ELSE codoc_freq[k]])

get_codoc_frequencies(m, min_val, proportions) ==
    IF Ndim(m) # 2 THEN Raise("ValueError")
    ELSE IF m.shape[2] < 2 THEN Raise("ValueError")
    ELSE Return(codoc_loop(m, min_val, proportions,
                           Combinations(m.shape[2]), 1, <<>>))

-----------------------------------------------------------------------------
(* SpecDtm: a document-term matrix and the statistics of it.               *)

\* the vectors of `len` counts whose total is at most `budget`
RECURSIVE Vecs(_, _)
Vecs(len, budget) ==
    IF len = 0 THEN {<<>>}
    ELSE UNION {{<<c>> \o r : r \in Vecs(len - 1, budget - c)} : c \in 0..budget}

Reshape(v, D, V) == [d \in 1..D |-> [w \in 1..V |-> v[(d - 1) * V + w]]]

Kinds == {"ndarray", "matrix", "sparse"}

\* the scenario of the documentation: 3 documents over 3 words
ExampleDtm ==
    [kind |-> "ndarray", shape |-> <<3, 3>>,
     data |-> <<<<1, 0, 2>>, <<0, 1, 1>>, <<1, 1, 0>>>>]

\* 2-D matrices of non-negative counts, at least one document
Dtms2D ==
    UNION {UNION {{[kind |-> k, shape |-> <<D, V>>, data |-> Reshape(v, D, V)] :
                      v \in Vecs(D * V, MaxTokens), k \in Kinds} :
                  V \in 0..MaxTerms} : D \in 1..MaxDocs}

\* 1-D arrays: not a matrix
Dtms1D ==
    UNION {{[kind |-> "ndarray", shape |-> <<n>>, data |-> v] :
               v \in Vecs(n, MaxTokens)} : n \in 1..MaxTerms}

InitDtm ==
    /\ \/ dtm \in Dtms2D
       \/ dtm \in Dtms1D
       \/ dtm = ExampleDtm
    /\ words = None /\ score = None /\ vocab = None /\ rel_mat = None
    /\ fn = "" /\ args = None /\ indices = <<>> /\ ret = NotCalled
    /\ NoLabels

Call(f, a, ix, r) ==
    /\ fn = ""
    /\ fn' = f /\ args' = a /\ indices' = ix /\ ret' = r
    /\ UNCHANGED <<dtm, words, score, vocab, rel_mat, labelVars>>

GetDocLengths ==
    Call("get_doc_lengths", None, <<>>, get_doc_lengths(dtm))

GetTermFrequencies ==
    Call("get_term_frequencies", None, <<>>, get_term_frequencies(dtm))

GetTermProportions ==
    Call("get_term_proportions", None, <<>>, get_term_proportions(dtm))

GetCodocFrequencies ==
    \E min_val \in 0..MaxMinVal, proportions \in BOOLEAN :
        Call("get_codoc_frequencies",
             [min_val |-> min_val, proportions |-> proportions], <<>>,
             get_codoc_frequencies(dtm, min_val, proportions))

NextDtm ==
    \/ GetDocLengths
    \/ GetTermFrequencies
    \/ GetTermProportions
    \/ GetCodocFrequencies

SpecDtm == InitDtm /\ [][NextDtm]_vars

Is2D(m) == Len(m.shape) = 2

\* the total of all entries of a 2-D dtm, entry by entry
Total(m) == Sum(Concat(m.data))

-----------------------------------------------------------------------------
(* Claims about the statistics of a document-term matrix.                  *)

\* column w (1-based) of a 2-D dtm, and its sum
ColumnSum(m, w) == Sum([d \in 1..m.shape[1] |-> m.data[d][w]])

\* the documents in which words w1 and w2 (0-based) both occur min_val times
DocsWithBoth(m, min_val, w1, w2) ==
    {d \in 1..m.shape[1] :
        m.data[d][w1 + 1] >= min_val /\ m.data[d][w2 + 1] >= min_val}

IncreasingPairs(V) == {<<w1, w2>> \in (0..(V - 1)) \X (0..(V - 1)) : w1 < w2}

C9_TermProportions ==
    (fn = "get_term_proportions" /\ Is2D(dtm)) =>
        /\ ret.outcome = "ValueError" <=> Total(dtm) = 0
        /\ Total(dtm) # 0 =>
              /\ ret.outcome = "return"
              /\ ret.value.shape = <<dtm.shape[2]>>
              /\ Len(ret.value.data) = dtm.shape[2]
              /\ \A w \in 1..dtm.shape[2] :
                    ret.value.data[w] = Frac(ColumnSum(dtm, w), Total(dtm))
              /\ Sum([w \in 1..dtm.shape[2] |-> ret.value.data[w].num])
                     = Total(dtm)

C9_Witness ==
    /\ fn = "get_term_proportions"
    /\ dtm = ExampleDtm
    /\ ret.outcome = "return"
    /\ ret.value.data = <<Frac(2, 7), Frac(2, 7), Frac(3, 7)>>

\* C10: for a 2-D dtm with D rows and V columns get_doc_lengths returns a
\* 1-D vector of length D holding the row sums, get_term_frequencies a 1-D
\* vector of length V holding the column sums, whatever the representation,
\* so either vector sums to the total of the matrix; both raise when dtm is
\* not 2-D.
C10_DocLengthsTermFrequencies ==
    /\ fn = "get_doc_lengths" =>
          IF Is2D(dtm)
          THEN /\ ret.outcome = "return"
               /\ ret.value.kind = "ndarray"
               /\ ret.value.shape = <<dtm.shape[1]>>
               /\ Len(ret.value.data) = dtm.shape[1]
               /\ \A d \in 1..dtm.shape[1] :
                     ret.value.data[d] = Sum(dtm.data[d])
               /\ Sum(ret.value.data) = Total(dtm)
          ELSE ret.outcome = "ValueError"
    /\ fn = "get_term_frequencies" =>
          IF Is2D(dtm)
          THEN /\ ret.outcome = "return"
               /\ ret.value.kind = "ndarray"
               /\ ret.value.shape = <<dtm.shape[2]>>
               /\ Len(ret.value.data) = dtm.shape[2]
               /\ \A w \in 1..dtm.shape[2] :
                     ret.value.data[w] = ColumnSum(dtm, w)
               /\ Sum(ret.value.data) = Total(dtm)
          ELSE ret.outcome = "ValueError"

C10_Witness ==
    /\ fn = "get_term_frequencies"
    /\ dtm = ExampleDtm
    /\ ret = Return([kind |-> "ndarray", shape |-> <<3>>, data |-> <<2, 2, 3>>])
    /\ get_doc_lengths(dtm).value.data = <<3, 2, 2>>

-----------------------------------------------------------------------------
(* General scores functions.                                                *)

\* An optional argument is <<>> (None) or <<v>>.
Some(v) == <<v>>

Reverse(s) == [i \in 1..Len(s) |-> s[Len(s) + 1 - i]]

\* the shape of a 1-D array
Shape(s) == <<Len(s)>>

IsSortedBy(p, s) == \A i \in 1..(Len(p) - 1) : s[p[i]] <= s[p[i + 1]]

\* the orders of the positions 1..k, for every length the model sorts
PositionOrders ==
    [k \in 0..(IF MaxLen > MaxVocab THEN MaxLen ELSE MaxVocab) |->
        Permutations(1..k)]

\* a faulty np.argsort that sorts in non-increasing order
ArgsortDescending(s) ==
    {p \in PositionOrders[Len(s)] : IsSortedBy(Reverse(p), s)}

\* np.argsort(score) with the default kind, which is not a stable sort: any
\* permutation of the positions that puts the scores in non-decreasing order
Argsort(s) == {p \in PositionOrders[Len(s)] : IsSortedBy(p, s)}

\* faulty checks that let n = 0 pass
words_by_score_check_NegativeOnly(w, s, n) ==
    IF Shape(w) # Shape(s) THEN "ValueError"
    ELSE IF n # <<>> /\ (n[1] < 0 \/ n[1] > Len(w)) THEN "ValueError"
    ELSE "ok"

\* _words_by_score, the checks at its entry
words_by_score_check(w, s, n) ==
    IF Shape(w) # Shape(s) THEN "ValueError"
    ELSE IF n # <<>> /\ (n[1] <= 0 \/ n[1] > Len(w)) THEN "ValueError"
    ELSE "ok"

\* a faulty ordering that never reverses
words_by_score_order_NoReverse(w, least_to_most, n, ix) ==
    LET ordered_words == [i \in 1..Len(ix) |-> w[ix[i]]]
    IN  IF n # <<>> THEN SubSeq(ordered_words, 1, n[1]) ELSE ordered_words

\* _words_by_score from np.argsort's result ix on
words_by_score_order(w, least_to_most, n, ix) ==
    LET ind == IF ~least_to_most THEN Reverse(ix) ELSE ix
        ordered_words == [i \in 1..Len(ind) |-> w[ind[i]]]
    IN  IF n # <<>> THEN SubSeq(ordered_words, 1, n[1]) ELSE ordered_words

\* _words_by_score(words, score, least_to_most, n) when np.argsort gives
\* ixo[1] (ixo is <<>> when the checks fail and np.argsort is not reached)
words_by_score(w, s, least_to_most, n, ixo) ==
    IF words_by_score_check(w, s, n) # "ok"
    THEN Raise(words_by_score_check(w, s, n))
    ELSE Return(words_by_score_order(w, least_to_most, n, ixo[1]))

\* what np.argsort may give in the call: nothing when the checks fail first
ArgsortReached(w, s, n) ==
    IF words_by_score_check(w, s, n) = "ok"
    THEN {Some(ix) : ix \in Argsort(s)} ELSE {<<>>}

-----------------------------------------------------------------------------
(* SpecScore: a words array, a score array, and the ranking of one by the  *)
(* other.                                                                   *)

Items == <<"a", "b", "c", "d", "e", "f">>

NOpts(len) == {<<>>} \cup {Some(k) : k \in (-1)..(len + 1)}

InitScore ==
    /\ \E lw \in 0..MaxLen : words = SubSeq(Items, 1, lw)
    /\ \E ls \in 0..MaxLen : score \in [1..ls -> 1..MaxScore]
    /\ dtm = None /\ vocab = None /\ rel_mat = None
    /\ fn = "" /\ args = None /\ indices = <<>> /\ ret = NotCalled
    /\ NoLabels

WordsByScore ==
    \E least_to_most \in BOOLEAN, n \in NOpts(MaxLen) :
        \E ixo \in ArgsortReached(words, score, n) :
            Call("_words_by_score",
                 [least_to_most |-> least_to_most, n |-> n], ixo,
                 words_by_score(words, score, least_to_most, n, ixo))

NextScore == WordsByScore

SpecScore == InitScore /\ [][NextScore]_vars

-----------------------------------------------------------------------------
(* Claims about the ranking primitive.                                      *)

\* the position of item x in the sequence r (0 if absent)
PosIn(r, x) == IF \E i \in 1..Len(r) : r[i] = x
               THEN CHOOSE i \in 1..Len(r) : r[i] = x ELSE 0

\* the call returned a full ordering
Ranked == fn = "_words_by_score" /\ ret.outcome = "return" /\ args.n = <<>>

\* r holds every item of w exactly once
IsPermutationOf(r, w) ==
    /\ Len(r) = Len(w)
    /\ \A i \in 1..Len(w) : \E k \in 1..Len(r) : r[k] = w[i]

\* the score of the item at position k of the result r
ScoreAt(r, k) == score[PosIn(words, r[k])]

\* r is ordered by score in the direction asked for
OrderedByScore(r, least_to_most) ==
    \A k, l \in 1..Len(r) :
        k < l => IF least_to_most THEN ScoreAt(r, k) <= ScoreAt(r, l)
                 ELSE ScoreAt(r, k) >= ScoreAt(r, l)

\* what the same call gives in the other direction, or with another n
SameCall(least_to_most, n) ==
    words_by_score(words, score, least_to_most, n, indices)

\* C1 as stated: the ranking is stable in both directions, so of two items
\* with equal score the one with the lower original index comes first.
C1_StableBothDirections ==
    Ranked =>
        \A i, j \in 1..Len(words) :
            (i < j /\ score[i] = score[j]) =>
                PosIn(ret.value, words[i]) < PosIn(ret.value, words[j])

\* C1 as amended: the result is a permutation of the items ordered by score
\* in the direction asked for, and the descending result is the exact
\* reverse of the ascending one, ties included: two items with equal score
\* never come lower index first in both directions.
C1_OrderedAndReversed ==
    Ranked =>
        /\ IsPermutationOf(ret.value, words)
        /\ OrderedByScore(ret.value, args.least_to_most)
        /\ SameCall(FALSE, <<>>).value = Reverse(SameCall(TRUE, <<>>).value)
        /\ \A i, j \in 1..Len(words) :
              (i < j /\ score[i] = score[j]) =>
                 ~ /\ PosIn(SameCall(TRUE, <<>>).value, words[i])
                        < PosIn(SameCall(TRUE, <<>>).value, words[j])
                   /\ PosIn(SameCall(FALSE, <<>>).value, words[i])
                        < PosIn(SameCall(FALSE, <<>>).value, words[j])

\* a descending ranking of three items with a tie
C1_Witness ==
    /\ Ranked
    /\ ~args.least_to_most
    /\ score = <<2, 1, 2>>
    /\ words = <<"a", "b", "c">>
    /\ ret.value = <<"c", "a", "b">>

\* C6: after the shape check, a given top_n makes the call raise ValueError
\* if and only if top_n <= 0 or top_n > len(items); otherwise the result is
\* the first top_n elements of the ordering the same call returns without
\* top_n.
C6_TopN ==
    fn = "_words_by_score" =>
        /\ Len(words) # Len(score) => ret.outcome = "ValueError"
        /\ (Len(words) = Len(score) /\ args.n = <<>>) => ret.outcome = "return"
        /\ (Len(words) = Len(score) /\ args.n # <<>>) =>
              /\ ret.outcome = "ValueError"
                    <=> (args.n[1] <= 0 \/ args.n[1] > Len(words))
              /\ ret.outcome # "ValueError" =>
                    /\ ret.outcome = "return"
                    /\ indices # <<>>
                    /\ Len(ret.value) = args.n[1]
                    /\ \A k \in 1..args.n[1] :
                          ret.value[k]
                              = SameCall(args.least_to_most, <<>>).value[k]

\* the scenario of the documentation: [a,b,c] by [3,1,2], ascending, top 2
C6_Witness ==
    /\ fn = "_words_by_score"
    /\ words = <<"a", "b", "c">>
    /\ score = <<3, 1, 2>>
    /\ args = [least_to_most |-> TRUE, n |-> Some(2)]
    /\ ret = Return(<<"b", "c">>)
    /\ SameCall(TRUE, <<>>) = Return(<<"b", "c", "a">>)

DistinctScores == \A i, j \in 1..Len(score) : i # j => score[i] # score[j]

\* C7: when the scores are pairwise distinct, the ascending result reversed
\* equals the descending result, and each is a permutation of the items
\* sorted by score.
C7_ReverseWhenNoTies ==
    (Ranked /\ DistinctScores) =>
        /\ Reverse(SameCall(TRUE, <<>>).value) = SameCall(FALSE, <<>>).value
        /\ ret.value = SameCall(args.least_to_most, <<>>).value
        /\ IsPermutationOf(ret.value, words)
        /\ \A k, l \in 1..Len(ret.value) :
              k < l => IF args.least_to_most
                       THEN ScoreAt(ret.value, k) < ScoreAt(ret.value, l)
                       ELSE ScoreAt(ret.value, k) > ScoreAt(ret.value, l)

C7_Witness ==
    /\ Ranked
    /\ DistinctScores
    /\ ~args.least_to_most
    /\ words = <<"a", "b", "c">>
    /\ score = <<3, 1, 2>>
    /\ ret.value = <<"a", "c", "b">>

-----------------------------------------------------------------------------
(* Relevance: the ranking of the vocabulary for one topic.                  *)

\* a faulty check that lets a negative topic pass
check_relevant_words_for_topic_args_NoLowerBound(v, rm, topic) ==
    IF Ndim(rm) # 2 THEN "ValueError"
    ELSE IF Len(v) # rm.shape[2] THEN "ValueError"
    ELSE IF ~(topic < rm.shape[1]) THEN "ValueError"
    ELSE "ok"

\* _check_relevant_words_for_topic_args
check_relevant_words_for_topic_args(v, rm, topic) ==
    IF Ndim(rm) # 2 THEN "ValueError"
    ELSE IF Len(v) # rm.shape[2] THEN "ValueError"
    ELSE IF ~(0 <= topic /\ topic < rm.shape[1]) THEN "ValueError"
    ELSE "ok"

\* rel_mat[topic], numpy indexing: <<row>>, a negative index counting from
\* the end, or <<>> when the index is out of bounds (IndexError)
RowAt(rm, topic) ==
    LET T == rm.shape[1]
        k == IF topic < 0 THEN T + topic + 1 ELSE topic + 1
    IN  IF k \in 1..T THEN <<rm.data[k]>> ELSE <<>>

\* the rest of get_most/least_relevant_words_for_topic once the check passed
relevant_words_ranked(v, rm, topic, least_to_most, n, ixo) ==
    IF RowAt(rm, topic) = <<>> THEN Raise("IndexError")
    ELSE words_by_score(v, RowAt(rm, topic)[1], least_to_most, n, ixo)

get_most_relevant_words_for_topic(v, rm, topic, n, ixo) ==
    IF check_relevant_words_for_topic_args(v, rm, topic) # "ok"
    THEN Raise(check_relevant_words_for_topic_args(v, rm, topic))
    ELSE relevant_words_ranked(v, rm, topic, FALSE, n, ixo)

get_least_relevant_words_for_topic(v, rm, topic, n, ixo) ==
    IF check_relevant_words_for_topic_args(v, rm, topic) # "ok"
    THEN Raise(check_relevant_words_for_topic_args(v, rm, topic))
    ELSE relevant_words_ranked(v, rm, topic, TRUE, n, ixo)

\* what np.argsort may give in such a call: nothing when a check fails first
ArgsortReachedForTopic(v, rm, topic, n) ==
    IF check_relevant_words_for_topic_args(v, rm, topic) # "ok" THEN {<<>>}
    ELSE IF RowAt(rm, topic) = <<>> THEN {<<>>}
    ELSE ArgsortReached(v, RowAt(rm, topic)[1], n)

-----------------------------------------------------------------------------
(* SpecRel: a vocabulary, a relevance matrix, and the words of one topic   *)
(* by relevance.                                                            *)

\* words are sequences of characters
VocabWords == <<<<"a">>, <<"a", "b">>, <<"b", "a">>, <<"b">>, <<"b", "b">>,
                <<"a", "a">>>>

VocabOf(n) == SubSeq(VocabWords, 1, n)

\* relevance matrices: the entries stand for the relevance values by their
\* order alone
RelMats2D ==
    UNION {UNION {{[kind |-> "ndarray", shape |-> <<T, V>>,
                    data |-> Reshape(v, T, V)] : v \in Vecs(T * V, MaxRelTotal)} :
                  V \in 0..MaxVocab} : T \in 0..MaxTopics}

RelMats1D ==
    UNION {{[kind |-> "ndarray", shape |-> <<n>>, data |-> v] :
               v \in Vecs(n, MaxRelTotal)} : n \in 1..MaxVocab}

NRelOpts == {<<>>, Some(1)}

\* the vocabulary has one word per column of rel_mat, or one too many
InitRel ==
    /\ \/ rel_mat \in RelMats2D
       \/ rel_mat \in RelMats1D
    /\ \E extra \in 0..1 :
          vocab = VocabOf(rel_mat.shape[Len(rel_mat.shape)] + extra)
    /\ dtm = None /\ words = None /\ score = None
    /\ fn = "" /\ args = None /\ indices = <<>> /\ ret = NotCalled
    /\ NoLabels

GetMostRelevantWordsForTopic ==
    \E topic \in (-1)..MaxTopics, n \in NRelOpts :
        \E ixo \in ArgsortReachedForTopic(vocab, rel_mat, topic, n) :
            Call("get_most_relevant_words_for_topic",
                 [topic |-> topic, n |-> n], ixo,
                 get_most_relevant_words_for_topic(vocab, rel_mat, topic, n, ixo))

GetLeastRelevantWordsForTopic ==
    \E topic \in (-1)..MaxTopics, n \in NRelOpts :
        \E ixo \in ArgsortReachedForTopic(vocab, rel_mat, topic, n) :
            Call("get_least_relevant_words_for_topic",
                 [topic |-> topic, n |-> n], ixo,
                 get_least_relevant_words_for_topic(vocab, rel_mat, topic, n, ixo))

NextRel ==
    \/ GetMostRelevantWordsForTopic
    \/ GetLeastRelevantWordsForTopic

SpecRel == InitRel /\ [][NextRel]_vars

-----------------------------------------------------------------------------
(* Claims about the relevance ranking of one topic.                         *)

\* the arguments pass the three checks
RelArgsValid ==
    IF Len(rel_mat.shape) # 2 THEN FALSE
    ELSE /\ Len(vocab) = rel_mat.shape[2]
         /\ args.topic \in 0..(rel_mat.shape[1] - 1)

\* the relevance, in row `topic`, of the word at position k of the result r
RelevanceAt(r, k) == rel_mat.data[args.topic + 1][PosIn(vocab, r[k])]

\* C8: get_most_relevant_words_for_topic and
\* get_least_relevant_words_for_topic raise, before any ranking is done,
\* when rel_mat is not 2-D, when len(vocab) differs from the number of
\* columns, or when topic is not in 0..rows-1 (negative indices included);
\* otherwise they return the vocabulary ordered by row rel_mat[topic] alone,
\* descending for most and ascending for least.
C8_RelevantWordsForTopic ==
    fn \in {"get_most_relevant_words_for_topic",
            "get_least_relevant_words_for_topic"} =>
        IF ~RelArgsValid
        THEN ret.outcome = "ValueError" /\ indices = <<>>
        ELSE args.n = <<>> =>
                /\ ret.outcome = "return"
                /\ IsPermutationOf(ret.value, vocab)
                /\ \A k, l \in 1..Len(ret.value) :
                      k < l =>
                         IF fn = "get_most_relevant_words_for_topic"
                         THEN RelevanceAt(ret.value, k) >= RelevanceAt(ret.value, l)
                         ELSE RelevanceAt(ret.value, k) <= RelevanceAt(ret.value, l)

\* the second of two topics ranked, most relevant first: the other row
\* would give another order
C8_Witness ==
    /\ fn = "get_most_relevant_words_for_topic"
    /\ vocab = VocabOf(3)
    /\ rel_mat.shape = <<2, 3>>
    /\ rel_mat.data = <<<<1, 0, 0>>, <<0, 1, 1>>>>
    /\ args = [topic |-> 1, n |-> <<>>]
    /\ ret = Return(<<<<"b", "a">>, <<"a", "b">>, <<"a">>>>)

-----------------------------------------------------------------------------
(* Topic labels from the top words of each topic.                           *)

Digits == <<"0", "1", "2", "3", "4", "5", "6", "7", "8", "9">>

\* the decimal digits str.format writes for a non-negative integer
RECURSIVE Str(_)
Str(i) == IF i < 10 THEN <<Digits[i + 1]>>
          ELSE Str(i \div 10) \o <<Digits[(i % 10) + 1]>>

\* labels_glue.join(ws)
RECURSIVE Join(_, _)
Join(glue, ws) ==
    IF ws = <<>> THEN <<>>
    ELSE IF Len(ws) = 1 THEN ws[1]
    ELSE ws[1] \o glue \o Join(glue, Tail(ws))

\* labels_format.format(i0=.., i1=.., topwords=..): a format is a sequence
\* of replacement fields and literal characters
RECURSIVE FormatWith(_, _, _, _)
FormatWith(format, i0, i1, topwords) ==
    IF format = <<>> THEN <<>>
    ELSE (CASE Head(format) = "{i0}" -> Str(i0)
            [] Head(format) = "{i1}" -> Str(i1)
            [] Head(format) = "{topwords}" -> topwords
            [] OTHER -> <<Head(format)>>)
         \o FormatWith(Tail(format), i0, i1, topwords)

DefaultFormat == <<"{i1}", "_", "{topwords}">>

DefaultGlue == <<"_">>

\* lines 295-301: the range of prefix lengths to try, <<first, last>>, or
\* <<>> when n_words is given and out of range (ValueError)
n_words_range(n_words, v) ==
    IF n_words = <<>> THEN <<1, Len(v)>>
    ELSE IF ~(1 <= n_words[1] /\ n_words[1] <= Len(v)) THEN <<>>
    ELSE <<n_words[1], n_words[1]>>

\* [ws[:k] for ws in most_rel_words]
TopWords(mrw, k) ==
    [t \in 1..Len(mrw) |-> SubSeq(mrw[t], 1, IF k < Len(mrw[t]) THEN k ELSE Len(mrw[t]))]

\* len(l) == len(set(l))
AllUnique(l) == Len(l) = Cardinality({l[i] : i \in 1..Len(l)})

\* a faulty loop that never breaks
RECURSIVE search_loop_NoBreak(_, _, _, _)
search_loop_NoBreak(mrw, k, last, cur) ==
    IF k > last THEN cur
    ELSE search_loop_NoBreak(mrw, k + 1, last,
             [n_most_rel |-> TopWords(mrw, k), n |-> Some(k)])

\* lines 306-310: the loop over the prefix lengths k..last; cur holds
\* n_most_rel and n as the previous iterations left them
RECURSIVE search_loop(_, _, _, _)
search_loop(mrw, k, last, cur) ==
    IF k > last THEN cur
    ELSE LET now == [n_most_rel |-> TopWords(mrw, k), n |-> Some(k)]
         IN  IF AllUnique(now.n_most_rel) THEN now
             ELSE search_loop(mrw, k + 1, last, now)

\* a stricter assertion, that the tuples are also pairwise distinct
assert_n_most_rel_Unique(l) == l # <<>> /\ AllUnique(l)

\* line 312: assert n_most_rel
assert_n_most_rel(l) == l # <<>>

\* lines 314-315
format_labels(l, labels_glue, labels_format) ==
    [i \in 1..Len(l) |->
        FormatWith(labels_format, i - 1, i, Join(labels_glue, l[i]))]

\* a faulty end that returns the labels unchecked
labels_check_Skipped(labels) == Return(labels)

\* lines 317-320
labels_check(labels) ==
    IF Len(labels) # Cardinality({labels[i] : i \in 1..Len(labels)})
    THEN Raise("ValueError")
    ELSE Return(labels)

-----------------------------------------------------------------------------
(* SpecLabels: one call of generate_topic_labels_from_top_words, step by   *)
(* step.  The distributions are taken to be well-shaped (the vocabulary    *)
(* has one word per column).  The relevance values are not kept in the     *)
(* state: row t of rel_mat is drawn when the ranking of topic t reads it,  *)
(* and labels_glue and labels_format when the labels are formatted.        *)

\* a row of the relevance matrix get_topic_word_relevance computes, by the
\* order of its values, with what np.argsort may give for it
RowReads ==
    [V \in 0..MaxVocab |->
        UNION {{[row |-> row, ixo |-> Some(ix)] : ix \in Argsort(row)} :
                 row \in [1..V -> 1..MaxRel]}]

\* a T x V relevance matrix of which only row t (0-based) is known
RelMatWithRow(T, V, row) ==
    [kind |-> "ndarray", shape |-> <<T, V>>, data |-> [k \in 1..T |-> row]]

Styles ==
    {[labels_glue |-> g, labels_format |-> f] :
        g \in {DefaultGlue, <<>>}, f \in {DefaultFormat, <<"{topwords}">>}}
    \cup {[labels_glue |-> DefaultGlue, labels_format |-> <<"{i0}">>]}

NWordsOpts == {<<>>} \cup {Some(k) : k \in 0..(MaxVocab + 1)}

InitLabels ==
    /\ \E T \in 0..MaxTopics, V \in 0..MaxVocab :
          /\ topic_word_distrib = [shape |-> <<T, V>>]
          /\ vocab = VocabOf(V)
    /\ \E n_words \in NWordsOpts : args = [n_words |-> n_words]
    /\ fn = "generate_topic_labels_from_top_words"
    /\ pc = "n_words"
    /\ most_rel_words = <<>> /\ loop_n = <<>> /\ n_most_rel = <<>>
    /\ topic_labels = <<>>
    /\ indices = <<>> /\ ret = NotCalled
    /\ dtm = None /\ words = None /\ score = None /\ rel_mat = None

\* lines 295-301
CheckNWords ==
    /\ pc = "n_words"
    /\ IF n_words_range(args.n_words, vocab) = <<>>
       THEN pc' = "done" /\ ret' = Raise("ValueError")
       ELSE pc' = "rank" /\ ret' = ret
    /\ UNCHANGED <<dtm, words, score, vocab, rel_mat, fn, args, indices,
                   topic_word_distrib, most_rel_words, loop_n, n_most_rel,
                   topic_labels>>

\* lines 303-304, one topic
RankTopic ==
    /\ pc = "rank"
    /\ Len(most_rel_words) < topic_word_distrib.shape[1]
    /\ \E rr \in RowReads[topic_word_distrib.shape[2]] :
          LET t == Len(most_rel_words)
              r == get_most_relevant_words_for_topic(
                       vocab,
                       RelMatWithRow(topic_word_distrib.shape[1],
                                     topic_word_distrib.shape[2], rr.row),
                       t, <<>>, rr.ixo)
          IN  IF r.outcome = "return"
              THEN /\ most_rel_words' = Append(most_rel_words, r.value)
                   /\ UNCHANGED <<pc, ret>>
              ELSE /\ pc' = "done" /\ ret' = r
                   /\ UNCHANGED most_rel_words
    /\ UNCHANGED <<dtm, words, score, vocab, rel_mat, fn, args, indices,
                   topic_word_distrib, loop_n, n_most_rel, topic_labels>>

\* lines 306-312
SearchPrefix ==
    /\ pc = "rank"
    /\ Len(most_rel_words) = topic_word_distrib.shape[1]
    /\ LET range == n_words_range(args.n_words, vocab)
           found == search_loop(most_rel_words, range[1], range[2],
                                [n_most_rel |-> <<>>, n |-> <<>>])
       IN  /\ n_most_rel' = found.n_most_rel
           /\ loop_n' = found.n
           /\ IF assert_n_most_rel(found.n_most_rel)
              THEN pc' = "format" /\ ret' = ret
              ELSE pc' = "done" /\ ret' = Raise("AssertionError")
    /\ UNCHANGED <<dtm, words, score, vocab, rel_mat, fn, args, indices,
                   topic_word_distrib, most_rel_words, topic_labels>>

\* lines 314-320
FormatLabels ==
    /\ pc = "format"
    /\ \E style \in Styles :
          /\ args' = [n_words |-> args.n_words,
                      labels_glue |-> style.labels_glue,
                      labels_format |-> style.labels_format]
          /\ topic_labels' = format_labels(n_most_rel, style.labels_glue,
                                           style.labels_format)
    /\ ret' = labels_check(topic_labels')
    /\ pc' = "done"
    /\ UNCHANGED <<dtm, words, score, vocab, rel_mat, fn, indices,
                   topic_word_distrib, most_rel_words, loop_n, n_most_rel>>

NextLabels ==
    \/ CheckNWords
    \/ RankTopic
    \/ SearchPrefix
    \/ FormatLabels

SpecLabels == InitLabels /\ [][NextLabels]_vars

-----------------------------------------------------------------------------
(* Claims about the topic labels.                                           *)

\* the call has ended
LabelsDone == fn = "generate_topic_labels_from_top_words" /\ pc = "done"

NTopics == topic_word_distrib.shape[1]

Distinct(l) == \A i, j \in 1..Len(l) : i # j => l[i] # l[j]

\* the k-prefixes of the rankings of the topics are pairwise distinct
UniqueAt(k) ==
    \A t, u \in 1..Len(most_rel_words) :
        t # u => SubSeq(most_rel_words[t], 1, k) # SubSeq(most_rel_words[u], 1, k)

SomeUniquePrefix == \E k \in 1..Len(vocab) : UniqueAt(k)

\* k is the number of top words in every label
UsesTopWords(k) ==
    /\ loop_n = Some(k)
    /\ Len(n_most_rel) = NTopics
    /\ \A t \in 1..NTopics : n_most_rel[t] = SubSeq(most_rel_words[t], 1, k)
    /\ topic_labels = [i \in 1..NTopics |->
           FormatWith(args.labels_format, i - 1, i,
                      Join(args.labels_glue, SubSeq(most_rel_words[i], 1, k)))]

\* C2 as stated: with n_words=None the labels returned are pairwise
\* distinct and every label uses the smallest k in 1..len(vocab) whose
\* k-prefixes of the rankings are pairwise distinct across topics.
C2_SmallestUniquePrefix ==
    (LabelsDone /\ args.n_words = <<>> /\ ret.outcome = "return") =>
        /\ Distinct(ret.value)
        /\ \E k \in 1..Len(vocab) :
              /\ UsesTopWords(k)
              /\ UniqueAt(k)
              /\ \A j \in 1..(k - 1) : ~UniqueAt(j)

\* C2 as amended: with n_words=None the labels returned are pairwise
\* distinct and every label uses the same number k of top words: the
\* smallest k in 1..len(vocab) whose k-prefixes are pairwise distinct across
\* topics if there is one, and len(vocab) if there is none (two topics rank
\* the vocabulary alike).
C2_SmallestUniquePrefixOrAll ==
    (LabelsDone /\ args.n_words = <<>> /\ ret.outcome = "return") =>
        /\ Distinct(ret.value)
        /\ ret.value = topic_labels
        /\ \E k \in 1..Len(vocab) :
              /\ UsesTopWords(k)
              /\ \A j \in 1..(k - 1) : ~UniqueAt(j)
              /\ IF SomeUniquePrefix THEN UniqueAt(k) ELSE k = Len(vocab)

\* two topics that agree on the top word and differ on the second
C2_Witness ==
    /\ LabelsDone /\ args.n_words = <<>> /\ ret.outcome = "return"
    /\ NTopics = 2 /\ Len(vocab) = 3
    /\ most_rel_words[1][1] = most_rel_words[2][1]
    /\ most_rel_words[1][2] # most_rel_words[2][2]
    /\ loop_n = Some(2)
    /\ Len(n_most_rel[1]) = 2

\* C3 as stated: with n_words=None, if no prefix length from 1 up to
\* len(vocab) makes the tuples pairwise distinct, the call ends in an
\* assertion failure and returns no labels.
C3_AssertionWhenNoUniquePrefix ==
    (LabelsDone /\ args.n_words = <<>> /\ ~SomeUniquePrefix) =>
        ret.outcome = "AssertionError"

\* C3 as amended: with n_words=None, if no prefix length from 1 up to
\* len(vocab) makes the tuples pairwise distinct and the vocabulary is not
\* empty, the assertion passes: every label is built from the full ranking
\* of its topic (len(vocab) words), the call returns the labels when they
\* are pairwise distinct as formatted, which they are with the default
\* format, and raises ValueError otherwise.  The assertion fails only when
\* there is no tuple to label: no topic, or an empty vocabulary.
C3_NoUniquePrefixUsesAll ==
    (LabelsDone /\ args.n_words = <<>>) =>
        /\ ret.outcome = "AssertionError" <=> (NTopics = 0 \/ Len(vocab) = 0)
        /\ (~SomeUniquePrefix /\ Len(vocab) > 0) =>
              /\ UsesTopWords(Len(vocab))
              /\ n_most_rel = most_rel_words
              /\ ret.outcome = "return" <=> Distinct(topic_labels)
              /\ ret.outcome = "ValueError" <=> ~Distinct(topic_labels)
              /\ ret.outcome = "return" => ret.value = topic_labels
              /\ args.labels_format = DefaultFormat => ret.outcome = "return"

\* two topics that rank the three words alike, labelled by the default
\* format
C3_Witness ==
    /\ LabelsDone /\ args.n_words = <<>>
    /\ NTopics = 2 /\ Len(vocab) = 3
    /\ most_rel_words = <<VocabOf(3), VocabOf(3)>>
    /\ args.labels_format = DefaultFormat /\ args.labels_glue = DefaultGlue
    /\ ret = Return(<<<<"1", "_", "a", "_", "a", "b", "_", "b", "a">>,
                      <<"2", "_", "a", "_", "a", "b", "_", "b", "a">>>>)

NWordsOutOfRange ==
    args.n_words # <<>> /\ ~(args.n_words[1] \in 1..Len(vocab))

=============================================================================
